---- MODULE Spec2Model ----
(***************************************************************************)
(* A model of the BOM enrichment back end (backend/app/bom, backend/app/   *)
(* main.py): the row fan-out of one batch (asyncio.gather over             *)
(* _parse_and_enrich_row), the catalog client find_part_by_mpn with its    *)
(* file cache and its semaphore, the job store bom_data_cache, the         *)
(* orchestrator stream_text and the evaluator evaluate_alternative.        *)
(*                                                                         *)
(* Scheduling is asyncio's: one event loop, a coroutine runs without       *)
(* interruption from one await that suspends to the next.  Every action    *)
(* below is one such run: it starts where an awaited call returns and      *)
(* ends where the coroutine suspends again or finishes.                    *)
(***************************************************************************)
EXTENDS Integers, Sequences, FiniteSets, TLC

\* ------------------------------------------------------------------ bounds

\* Rows of the uploaded table: a batch has 0..MaxRows rows.
MaxRows == 3

\* Capacity of the limiter handed to find_part_by_mpn.  The batch code builds
\* asyncio.Semaphore(10); the model scales it below MaxRows so that lookups
\* queue for a slot.
SemaCapacity == 2

\* evaluate_alternative calls a behaviour may make directly (outside
\* stream_text).
MaxEvalCalls == 1

\* Rows of the table in the runs that interleave direct evaluations.
MaxEvalRows == 2

\* The limiter's capacity in those runs, again below the row count.
EvalSemaCapacity == 1

\* Direct find_part_by_mpn calls made one after the other.
MaxLookups == 3

\* Characters of an identifier whose cache file name is derived.
MaxIdLen == 3

\* Text chunks the final stream of optimize_production_plan delivers.
MaxChunks == 2

\* Designators of a row, and the largest magnitude of a quantity.
MaxDesignators == 3
MaxQuantity == 2

\* ---------------------------------------------------------------- universes

\* Part identifiers the extraction can return; NoMpn is the empty/absent
\* manufacturer_part_number (falsy in `if parsed_item.manufacturer_part_number`).
MPNs == {"A", "B"}
NoMpn == ""

\* Job identifiers: JobId is the uploaded file's id, OtherJob never has a file.
JobId == "J1"
OtherJob == "J2"
JobIds == {JobId, OtherJob}

\* The two implementations of the row fan-out.
Impls == {"logic", "service"}

\* Payloads of the catalog service (results[0]["part"]).  P1 and P2 are two
\* well-formed answers (the service may answer differently over time), BadPart
\* is a non-empty payload that the OctopartPart model rejects (for instance
\* "similarParts": null).
P1 == [tag |-> "p1", wellFormed |-> TRUE, similarParts |-> <<"X", "Y">>]
P2 == [tag |-> "p2", wellFormed |-> TRUE, similarParts |-> <<"X">>]
BadPart == [tag |-> "bad", wellFormed |-> FALSE, similarParts |-> <<>>]
Payloads == {P1, P2, BadPart}

\* Python's None as the value returned by find_part_by_mpn.
Absent == [tag |-> "None", wellFormed |-> FALSE, similarParts |-> <<>>]

\* A cache file: missing; holding a JSON document; Garbled, a file that open()
\* cannot read or whose text is not JSON (for instance a truncated write);
\* Undecodable, a file whose bytes the text decoder rejects.
NoFile == [kind |-> "none", part |-> Absent]
Garbled == [kind |-> "garbled", part |-> Absent]
Undecodable == [kind |-> "undecodable", part |-> Absent]
JsonFile(p) == [kind |-> "json", part |-> p]

\* Cache directory contents a process may find at start-up.
InitFiles == {NoFile, Garbled, Undecodable, JsonFile(P1)}

\* octopart_data of a ParsedBomItem: None, or an OctopartPart.
NoData == [present |-> FALSE, tag |-> "None", similar_parts |-> <<>>]

\* A job store entry: the list object a batch assigned (`batch` tells the two
\* runs' list objects apart), or nothing.
StoredList(b, data) == [present |-> TRUE, batch |-> b, data |-> data]
NoList == [present |-> FALSE, batch |-> 0, data |-> <<>>]

\* The second run, the direct lookup, the validation and the key derivation
\* before they start.
NoOther == [pc |-> "idle", results |-> <<>>]
NoLook ==
    [pc |-> "idle", mpn |-> NoMpn, how |-> "not_called", got |-> Absent,
     consulted |-> FALSE, n |-> 0]
NoVal == [pc |-> "idle"]
NoKey == [pc |-> "idle"]

\* The batch running beside the first before it is called.
NoSecond == [pc |-> "idle", sema |-> 0, task |-> <<>>]

\* The production-plan store without plans and no optimize_production_plan
\* generator created.
NoPlan ==
    [pc |-> "idle", production_plans_cache |-> {}, job_id |-> JobId, cache |-> "omitted",
     chunks |-> <<>>, raised |-> FALSE]

\* No process_and_enrich_bom call.
NoTool == [pc |-> "idle", result |-> "none", started |-> FALSE]

VARIABLES
    impl,       \* which fan-out runs: logic.get_bom_data_with_alternatives or service.parse_bom_items
    apiKey,     \* NEXAR_API_KEY is set
    nrows,      \* rows of the uploaded table
    disk,       \* CACHE_DIR: identifier -> cache file
    bpc,        \* position of the batch coroutine
    task,       \* row -> the row task (position, identifier being looked up, result)
    capacity,   \* the value the batch's limiter is built with
    sema,       \* asyncio.Semaphore._value of the batch's limiter
    calls,      \* external catalog calls issued so far, per identifier
    store,      \* bom_data_cache: job id -> stored result list
    ret,        \* what the batch function returned or raised to its caller
    orch,       \* stream_text after the tool call was recognised
    ev,         \* a direct evaluate_alternative call
    evCalls,    \* direct evaluate_alternative calls made
    served,     \* a lookup was served from the cache while every slot of the limiter was held
    other,      \* a second get_bom_data_with_alternatives run on the same job id
    look,       \* a direct find_part_by_mpn call with a limiter of its own
    val,        \* one extraction output passing through ParsedBomItem.model_validate
    key,        \* the cache file name derived from an identifier
    second,     \* a parse_bom_items batch running beside the first: its limiter and row tasks
    plan,       \* production_plans_cache and one optimize_production_plan generator
    tool        \* a process_and_enrich_bom call around start_bom_processing

vars == <<impl, apiKey, nrows, capacity, disk, bpc, task, sema, calls, store, ret, orch, ev, evCalls,
          served, other, look, val, key, second, plan, tool>>

Rows == 1..nrows


\* ------------------------------------------------------------ row results

\* The ParsedBomItem a row task returns.  `row` is the input row it was parsed
\* from (its original_row_text).
ParsedItem(i, m, d) ==
    [kind |-> "item", row |-> i, manufacturer_part_number |-> m, octopart_data |-> d]

\* The error_info dict of the except branch; row is row_num = index + 1.
RowError(i) ==
    [kind |-> "error", row |-> i, manufacturer_part_number |-> NoMpn, octopart_data |-> NoData]

\* The result slot of a task that has not finished.
NoResult ==
    [kind |-> "pending", row |-> 0, manufacturer_part_number |-> NoMpn, octopart_data |-> NoData]

\* What the extraction capability can do for a row: raise, return content that
\* fails validation (json.loads / ParsedBomItem.model_validate, or a null
\* .parsed), or return a valid item with or without an identifier.
ExtractOutcomes ==
    {[ok |-> FALSE, why |-> w, mpn |-> NoMpn] : w \in {"raises", "invalid"}}
    \cup {[ok |-> TRUE, why |-> "valid", mpn |-> m] : m \in MPNs \cup {NoMpn}}

\* ------------------------------------------------------- find_part_by_mpn

CACHE_ENABLED == TRUE

\* A client that skips the cache check.
CacheCheckAlwaysMiss(m) ==
    [status |-> "miss", part |-> Absent]

\* Step 1, "check cache first": json.load of an existing file.  Only
\* json.JSONDecodeError and IOError are caught and fall through to the fetch;
\* the UnicodeDecodeError of a file whose bytes do not decode leaves
\* find_part_by_mpn.
CacheCheck(m) ==
    IF ~CACHE_ENABLED \/ disk[m].kind = "none"
    THEN [status |-> "miss", part |-> Absent]
    ELSE IF disk[m].kind = "json"
    THEN [status |-> "hit", part |-> disk[m].part]
    ELSE IF disk[m].kind = "garbled"
    THEN [status |-> "miss", part |-> Absent]
    ELSE [status |-> "raise", part |-> Absent]

\* What the POST to the catalog service can end in.
Responses ==
    {[kind |-> k, part |-> Absent] :
        k \in {"http_error", "network_error", "malformed", "errors", "empty"}}
    \cup {[kind |-> "part", part |-> p] : p \in Payloads}

\* part_data of a response: raise_for_status, response.json(), the "errors"
\* test and results[0]["part"]; every failure ends in `return None`.
PartData(resp) ==
    IF resp.kind = "part" THEN resp.part ELSE Absent

\* The cache write: it succeeds, open() fails (file untouched), or the dump
\* fails after open(..., "w") truncated the file.
WriteOutcomes == {"ok", "open_fails", "dump_fails"}

\* Step 3, "write to cache if successful and data is found".
CacheWrite(m, part, wr) ==
    IF CACHE_ENABLED /\ part # Absent
    THEN IF wr = "ok" THEN [disk EXCEPT ![m] = JsonFile(part)]
         ELSE IF wr = "dump_fails" THEN [disk EXCEPT ![m] = Garbled]
         ELSE disk
    ELSE disk

\* A client that gives up the entry it could not persist.
ReturnedOnlyIfPersisted(part, wr) ==
    IF wr = "ok" THEN part ELSE Absent

\* `return part_data` after the cache write: the IOError of a failed write is
\* caught and logged inside the `if`, and the fetched entry is returned.
Returned(part, wr) ==
    part

\* ------------------------------------------------- _parse_and_enrich_row

\* logic.py: OctopartPart(**octopart_data), similarParts by alias.
OctopartPart(p) ==
    [present |-> TRUE, tag |-> p.tag, similar_parts |-> p.similarParts]

\* service.py: the OctopartPart built field by field; similar parts are not copied.
ManualOctopartPart(p) ==
    [present |-> TRUE, tag |-> p.tag, similar_parts |-> <<>>]

\* A row worker that never attaches the entry it was given.
AttachNothing(i, m, part) ==
    ParsedItem(i, m, NoData)

\* The row's result once find_part_by_mpn returned `part` (Absent for None).
\* logic.py converts inside the row's try: a payload the model rejects ends in
\* the except branch.  service.py converts inside a try of its own.
Attach(i, m, part) ==
    IF part = Absent
    THEN ParsedItem(i, m, NoData)
    ELSE IF impl = "logic"
    THEN IF part.wellFormed THEN ParsedItem(i, m, OctopartPart(part)) ELSE RowError(i)
    ELSE IF part.wellFormed THEN ParsedItem(i, m, ManualOctopartPart(part))
         ELSE ParsedItem(i, m, NoData)

\* A task record: its position, the identifier it looks up, its result, and
\* the history of its lookup: how find_part_by_mpn ended (`how`) and what it
\* returned (`got`).
Task(pc, m, how, got, r) ==
    [pc |-> pc, mpn |-> m, how |-> how, got |-> got, result |-> r]

\* The task returns r.
Finish(i, m, how, got, r) ==
    task' = [task EXCEPT ![i] = Task("done", m, how, got, r)]

\* A client that goes to the network without testing its key.
KeyCheckSkipped ==
    FALSE

\* `if not NEXAR_API_KEY:` after the cache check: log and return None.
KeyMissing ==
    ~apiKey

\* A lookup that never waits for the limiter.
SlotFreeAlways ==
    TRUE

\* sema.acquire() returns without waiting while the semaphore's value is positive.
SlotFree ==
    sema > 0

\* `async with sema` entered and the POST issued.
Acquire(i, m) ==
    /\ sema' = sema - 1
    /\ calls' = [calls EXCEPT ![m] = @ + 1]
    /\ task' = [task EXCEPT ![i] = Task("inflight", m, "fetching", Absent, NoResult)]

\* A lookup that takes a slot of the limiter to read the cache.
ServeFromCacheHoldingSlot(i, m, part) ==
    /\ sema > 0
    /\ sema' = sema - 1
    /\ Finish(i, m, "hit", part, Attach(i, m, part))
    /\ served' = served
    /\ UNCHANGED calls

\* `return json.load(f)`: the lookup returns the cached entry before the
\* `async with sema` line is reached, and the row finishes.
ServeFromCache(i, m, part) ==
    /\ Finish(i, m, "hit", part, Attach(i, m, part))
    /\ served' = (served \/ sema = 0)
    /\ UNCHANGED <<sema, calls>>

\* A worker that reports a row without identifier as a failed row.
NoIdentifierRowError(i) ==
    RowError(i)

\* `if parsed_item.manufacturer_part_number:` is false: line 152 returns the
\* validated item as it is, octopart_data left at None.
NoIdentifierResult(i) ==
    ParsedItem(i, NoMpn, NoData)

\* The extraction call of row i returns: validation, then find_part_by_mpn up
\* to its first suspension (the cache is read synchronously).
ExtractionReturns(i) ==
    /\ bpc = "gathering"
    /\ task[i].pc = "extracting"
    /\ \E out \in ExtractOutcomes :
        IF ~out.ok
        THEN Finish(i, NoMpn, "not_called", Absent, RowError(i))
             /\ UNCHANGED <<sema, calls, served>>
        ELSE IF out.mpn = NoMpn
        THEN Finish(i, NoMpn, "not_called", Absent, NoIdentifierResult(i))
             /\ UNCHANGED <<sema, calls, served>>
        ELSE LET c == CacheCheck(out.mpn) IN
             IF c.status = "hit"
             THEN ServeFromCache(i, out.mpn, c.part)
             ELSE IF c.status = "raise"
             THEN Finish(i, out.mpn, "raised", Absent, RowError(i))
                  /\ UNCHANGED <<sema, calls, served>>
             ELSE IF KeyMissing
             THEN Finish(i, out.mpn, "no_key", Absent, Attach(i, out.mpn, Absent))
                  /\ UNCHANGED <<sema, calls, served>>
             ELSE IF SlotFree
             THEN Acquire(i, out.mpn) /\ UNCHANGED served
             ELSE /\ task' = [task EXCEPT ![i] = Task("waiting", out.mpn, "waiting", Absent, NoResult)]
                  /\ UNCHANGED <<sema, calls, served>>
    /\ UNCHANGED <<impl, apiKey, nrows, capacity, disk, bpc, store, ret, orch, ev, evCalls,
                   other, look, val, key, second, plan, tool>>

\* A task blocked in sema.acquire() gets a slot.
SemaAcquired(i) ==
    /\ bpc = "gathering"
    /\ task[i].pc = "waiting"
    /\ SlotFree
    /\ Acquire(i, task[i].mpn)
    /\ UNCHANGED <<impl, apiKey, nrows, capacity, disk, bpc, store, ret, orch, ev, evCalls,
                   served, other, look, val, key, second, plan, tool>>

\* A client that gives its slot back on the path that returns a part only.
ReleaseOnPartOnly(resp) ==
    IF resp.kind = "part" THEN sema + 1 ELSE sema

\* Leaving `async with sema`: the semaphore is released on every way out of
\* the block, the returns at 150 and 164 and the three except branches.
Release(resp) ==
    sema + 1

\* The POST of row i returns: the response is read, the cache written, the
\* slot released, and the row finishes.  An IOError of the write is logged and
\* the fetched part still returned.
ResponseReturns(i) ==
    /\ bpc = "gathering"
    /\ task[i].pc = "inflight"
    /\ \E resp \in Responses :
        LET m == task[i].mpn
            part == PartData(resp)
        IN  /\ sema' = Release(resp)
            /\ \E wr \in (IF part = Absent THEN {"ok"} ELSE WriteOutcomes) :
                  /\ disk' = CacheWrite(m, part, wr)
                  /\ Finish(i, m, IF part = Absent THEN "no_part" ELSE "fetched",
                            Returned(part, wr), Attach(i, m, Returned(part, wr)))
    /\ UNCHANGED <<impl, apiKey, nrows, capacity, bpc, calls, store, ret, orch, ev, evCalls,
                   served, other, look, val, key, second, plan, tool>>

\* --------------------------------------------------------------- the batch

\* A fan-out that hands the results back last task first.
GatherReversed ==
    [i \in 1..nrows |-> task[nrows + 1 - i].result]

\* asyncio.gather(*tasks): the results in the order of the awaitables.
Gather ==
    [i \in 1..nrows |-> task[i].result]

\* item.model_dump(exclude_none=True) for a ParsedBomItem, the dict itself for
\* an error_info: the entry of processed_data.  A None identifier or
\* octopart_data is a missing key, read back by .get() as NoMpn / NoData.
ModelDump(r) ==
    [error |-> r.kind = "error", row |-> r.row,
     manufacturer_part_number |-> r.manufacturer_part_number,
     octopart_data |-> r.octopart_data]

\* The manufacturer names the summary filters out, and str.lower() on the
\* identifiers of the model.
ManufacturerNames ==
    {"texas instruments", "panasonic", "vishay", "bourns", "cliff", "rubycon"}

Lower(m) ==
    IF m = "A" THEN "a"
    ELSE IF m = "B" THEN "b"
    ELSE IF m = "Vishay" THEN "vishay"
    ELSE IF m = "RUBYCON" THEN "rubycon"
    ELSE IF m = "Vishay1" THEN "vishay1"
    ELSE m

\* A summary loop that compares the identifier as it is written.
SummariseCaseSensitive(data) ==
    LET Keep(d) ==
            /\ d.manufacturer_part_number # NoMpn
            /\ d.manufacturer_part_number \notin ManufacturerNames
        kept == SelectSeq(data, Keep)
    IN  [k \in 1..Len(kept) |->
            [kind |-> "part", row |-> kept[k].row,
             manufacturer_part_number |-> kept[k].manufacturer_part_number,
             alternatives |-> kept[k].octopart_data.similar_parts]]

\* The summary loop of get_bom_data_with_alternatives.
Summarise(data) ==
    LET Keep(d) ==
            /\ d.manufacturer_part_number # NoMpn
            /\ Lower(d.manufacturer_part_number) \notin ManufacturerNames
        kept == SelectSeq(data, Keep)
        Entry(d) ==
            IF d.error
            THEN [kind |-> "error", row |-> d.row,
                  manufacturer_part_number |-> NoMpn, alternatives |-> <<>>]
            ELSE [kind |-> "part", row |-> d.row,
                  manufacturer_part_number |-> d.manufacturer_part_number,
                  alternatives |-> d.octopart_data.similar_parts]
    IN  [k \in 1..Len(kept) |-> Entry(kept[k])]

\* What the batch function handed to its caller.
NoReturn == [kind |-> "none", list |-> <<>>, processing_error |-> FALSE]
Raised == [kind |-> "raised", list |-> <<>>, processing_error |-> FALSE]

\* A result that reports a processing error whenever a row failed.
ServiceResultAnyError(results) ==
    [kind |-> "result",
     list |-> [k \in 1..Len(results) |-> ModelDump(results[k])],
     processing_error |-> \E k \in 1..Len(results) : results[k].kind = "error"]

\* start_bom_processing's result: parsed_items and processing_error.
ServiceResult(results) ==
    LET has_enrichment_error == \E k \in 1..Len(results) : results[k].kind = "error"
        was_any_item_enriched ==
            \E k \in 1..Len(results) :
                results[k].kind = "item" /\ results[k].octopart_data.present
    IN  [kind |-> "result",
         list |-> [k \in 1..Len(results) |-> ModelDump(results[k])],
         processing_error |-> has_enrichment_error /\ ~was_any_item_enriched]

\* ------------------------------------------------- process_and_enrich_bom

\* What process_and_enrich_bom handed to its caller: the {"error": ...} record
\* or start_bom_processing's result; `started` tells whether
\* start_bom_processing was called.
ToolReturned(result, started) ==
    [pc |-> "returned", result |-> result, started |-> started]

\* A wrapper without the try around start_bom_processing.
ToolNextPropagates(b, r) ==
    IF impl = "service" /\ tool.pc \in {"called", "awaiting"}
    THEN IF b = "raised" THEN [pc |-> "raised", result |-> "none", started |-> TRUE]
         ELSE IF b = "returned" THEN ToolReturned(r.kind, TRUE)
         ELSE [pc |-> "awaiting", result |-> "none", started |-> TRUE]
    ELSE tool

\* Lines 28-34 of tools.py around a step of start_bom_processing that leaves
\* the batch at position b with outcome r: the awaited call is still running,
\* it returned its result (`return result`), or it raised and the except
\* branch returns the error record.  With no process_and_enrich_bom call
\* around the batch nothing changes.
ToolNext(b, r) ==
    IF impl = "service" /\ tool.pc \in {"called", "awaiting"}
    THEN IF b = "raised" THEN ToolReturned("error", TRUE)
         ELSE IF b = "returned" THEN ToolReturned(r.kind, TRUE)
         ELSE [pc |-> "awaiting", result |-> "none", started |-> TRUE]
    ELSE tool

\* process_and_enrich_bom finds no uploaded file for the job id (lines 20-24):
\* it returns the error record and start_bom_processing is not called.
ToolNoFile ==
    /\ tool.pc = "called"
    /\ bpc = "idle"
    /\ tool' = ToolReturned("error", FALSE)
    /\ UNCHANGED <<impl, apiKey, nrows, capacity, disk, bpc, task, sema, calls, store, ret, orch,
                   ev, evCalls, served, other, look, val, key, second, plan>>

\* ------------------------------------------------------------- stream_text

\* stream_text from the recognised tool call on: its position, the
\* evaluations its fan-out started, evaluation_results once gathered, and the
\* chunks yielded.
Orch(pc, started, gathered, results, chunks) ==
    [pc |-> pc, started |-> started, gathered |-> gathered,
     evaluation_results |-> results, chunks |-> chunks]

\* An orchestrator whose failures reach the consumer of the stream.
ErrorPropagates(o) ==
    [o EXCEPT !.pc = "raised"]

\* `except Exception` at lines 167-169: one chunk with the error text is
\* yielded and the generator ends.
ErrorChunk(o) ==
    [o EXCEPT !.pc = "done", !.chunks = Append(@, "error")]

\* Step 2 of the orchestrator, "create evaluation tasks for all alternatives":
\* one call evaluate_alternative(part=part, assumptions=assumptions) per
\* summary entry.  evaluate_alternative takes job_id, original_mpn,
\* alternative_mpn, assumptions, cache: the first call raises TypeError before
\* any coroutine exists.
CreateEvaluationTasks(summary) ==
    IF Len(summary) = 0
    THEN [raised |-> FALSE, tasks |-> <<>>]
    ELSE [raised |-> TRUE, tasks |-> <<>>]

\* The orchestrator once the batch returned `summary`: task creation, then
\* gather of the (empty) task list, then the await of the synthesis call; the
\* except branch yields one error chunk.
AfterSummary(summary) ==
    LET c == CreateEvaluationTasks(summary) IN
    IF c.raised
    THEN ErrorChunk(Orch("batch", 0, FALSE, <<>>, <<>>))
    ELSE Orch("synthesis", Len(c.tasks), TRUE, c.tasks, <<>>)

\* A store that keeps the first list written under a job id.
PutIfAbsent(j, b, data) ==
    IF store[j].present THEN store ELSE [store EXCEPT ![j] = StoredList(b, data)]

\* A store that receives the list one row at a time and has only the first.
PutFirstRowOnly(j, b, data) ==
    [store EXCEPT ![j] = StoredList(b, SubSeq(data, 1, 1))]

\* cache[job_id] = processed_data: one dict assignment of the finished list.
Put(j, b, data) ==
    [store EXCEPT ![j] = StoredList(b, data)]

\* The batch has every row's result: lines 181-203 of logic.py followed by the
\* orchestrator, or the tail of start_bom_processing.
Complete(results) ==
    /\ bpc' = "returned"
    /\ IF impl = "logic"
       THEN LET processed_data == [k \in 1..Len(results) |-> ModelDump(results[k])]
                summary == Summarise(processed_data)
            IN  /\ store' = Put(JobId, 1, processed_data)
                /\ ret' = [kind |-> "summary", list |-> summary, processing_error |-> FALSE]
                /\ orch' = AfterSummary(summary)
       ELSE /\ ret' = ServiceResult(results)
            /\ UNCHANGED <<store, orch>>

\* A batch function that clears the job's entry when it fails.
StoreEntryDropped ==
    [store EXCEPT ![JobId] = NoList]

\* The job store after a raise of lines 164-172: the only statement that
\* writes it, `cache[job_id] = processed_data` at line 184, was not reached.
StoreAfterRaise ==
    store

\* The batch function is entered: the uploaded file is located and its head
\* read, then the column-mapping call is awaited.  A missing file, an
\* unsupported type or an unreadable head raises.
BatchStart ==
    /\ bpc = "idle"
    /\ \E setup \in {"no_file", "bad_head", "ok"} :
        IF setup = "ok"
        THEN /\ bpc' = "mapping"
             /\ orch' = Orch("batch", 0, FALSE, <<>>, <<>>)
             /\ UNCHANGED <<ret, store>>
        ELSE /\ bpc' = "raised"
             /\ ret' = Raised
             /\ store' = StoreAfterRaise
             /\ orch' = IF impl = "logic"
                        THEN ErrorChunk(orch)
                        ELSE orch
    /\ UNCHANGED <<impl, apiKey, nrows, capacity, disk, task, sema, calls, ev, evCalls,
                   served, other, look, val, key, second, plan>>
    /\ tool' = ToolNext(bpc', ret')

\* A fan-out that starts no more extraction calls than the limiter has slots.
DispatchUpToCapacity ==
    [i \in 1..nrows |->
        Task(IF i <= capacity THEN "extracting" ELSE "created",
             NoMpn, "not_called", Absent, NoResult)]

\* The task list of line 177 handed to gather at 179: every row's coroutine
\* is started and runs to its first await, the extraction call at line 135,
\* which no `async with sema` encloses.
Dispatch ==
    [i \in 1..nrows |-> Task("extracting", NoMpn, "not_called", Absent, NoResult)]

\* A batch whose limiter starts with every slot taken.
NewSemaphoreEmpty ==
    capacity - capacity

\* sema = asyncio.Semaphore(10): the limiter a batch builds starts with all
\* its slots free (10 in the code, `capacity` in the model).
NewSemaphore ==
    capacity

\* The column-mapping call returns.  On success the full table is read, the
\* semaphore built, one task per row created and gathered; an empty table
\* completes at once.
MappingReturns ==
    /\ bpc = "mapping"
    /\ \E out \in {"mapping_fails", "read_fails", "ok"} :
        IF out # "ok"
        THEN /\ bpc' = "raised"
             /\ ret' = Raised
             /\ orch' = IF impl = "logic"
                        THEN ErrorChunk(orch)
                        ELSE orch
             /\ store' = StoreAfterRaise
             /\ UNCHANGED <<task, sema>>
        ELSE IF nrows = 0
        THEN /\ Complete(<<>>)
             /\ sema' = NewSemaphore
             /\ UNCHANGED task
        ELSE /\ bpc' = "gathering"
             /\ sema' = NewSemaphore
             /\ task' = Dispatch
             /\ UNCHANGED <<ret, orch, store>>
    /\ UNCHANGED <<impl, apiKey, nrows, capacity, disk, calls, ev, evCalls,
                   served, other, look, val, key, second, plan>>
    /\ tool' = ToolNext(bpc', ret')

\* A fan-out that returns with the first finished task and abandons the rest.
FirstDone ==
    \E i \in Rows : task[i].pc = "done"

\* `await asyncio.gather(*tasks)` resumes once every awaitable has finished;
\* a row task finishes by returning (its except branch returns the error
\* dict), so no exception reaches gather.
AllDone ==
    \A i \in Rows : task[i].pc = "done"

\* The last row task has finished: gather returns.
GatherCompletes ==
    /\ bpc = "gathering"
    /\ AllDone
    /\ Complete(Gather)
    /\ UNCHANGED <<impl, apiKey, nrows, capacity, disk, task, sema, calls, ev, evCalls,
                   served, other, look, val, key, second, plan>>
    /\ tool' = ToolNext(bpc', ret')

\* The final synthesis call returns: its text is streamed; the call raises;
\* or the stream breaks after a text chunk.  An exception becomes the error
\* chunk.
SynthesisReturns ==
    /\ orch.pc = "synthesis"
    /\ \E out \in {"streams", "raises", "breaks"} :
        orch' = IF out = "streams"
                THEN [orch EXCEPT !.pc = "done", !.chunks = <<"text">>]
                ELSE IF out = "raises"
                THEN ErrorChunk(orch)
                ELSE ErrorChunk([orch EXCEPT !.chunks = <<"text">>])
    /\ UNCHANGED <<impl, apiKey, nrows, capacity, disk, bpc, task, sema, calls, store, ret, ev, evCalls,
                   served, other, look, val, key, second, plan, tool>>


\* ---------------------------------------------------- evaluate_alternative

\* A ValidationResult.  The reasoning is kept as the text's template: the
\* three not-found messages, the judgment's own text, the internal-error text.
Verdict(v, r) == [is_valid |-> v, reasoning |-> r]
NoVerdict == Verdict(FALSE, "none")

\* Candidate identifiers a caller may name.
Alternatives == {"X", "Y"}

\* A direct call: its position, its arguments, what its judgment call did,
\* whether the call raised, its verdict.
Eval(pc, j, o, a, judgment, raised, v) ==
    [pc |-> pc, job_id |-> j, original_mpn |-> o, alternative_mpn |-> a,
     judgment |-> judgment, raised |-> raised, verdict |-> v]

\* An evaluator that does not tell a missing original from a missing
\* candidate.
FindPartsOriginalUnchecked(j, o, a) ==
    LET full_bom_data == store[j] IN
    IF ~full_bom_data.present \/ Len(full_bom_data.data) = 0
    THEN "no_job"
    ELSE IF \E k \in 1..Len(full_bom_data.data) :
                /\ full_bom_data.data[k].manufacturer_part_number = o
                /\ \E c \in 1..Len(full_bom_data.data[k].octopart_data.similar_parts) :
                       full_bom_data.data[k].octopart_data.similar_parts[c] = a
         THEN "found"
         ELSE "no_alternative"

\* An evaluator that tests the stored list for None only.
FindPartsEmptyListKnown(j, o, a) ==
    LET full_bom_data == store[j] IN
    IF ~full_bom_data.present
    THEN "no_job"
    ELSE LET Is(p) == p.manufacturer_part_number = o
             originals == SelectSeq(full_bom_data.data, Is)
         IN  IF Len(originals) = 0
             THEN "no_original"
             ELSE LET alternatives == originals[1].octopart_data.similar_parts IN
                  IF \E k \in 1..Len(alternatives) : alternatives[k] = a
                  THEN "found"
                  ELSE "no_alternative"

\* Steps 1 and 2 of evaluate_alternative: cache.get(job_id), the first stored
\* entry with the original identifier, the first similar part with the
\* alternative identifier.
FindParts(j, o, a) ==
    LET full_bom_data == store[j] IN
    IF ~full_bom_data.present \/ Len(full_bom_data.data) = 0
    THEN "no_job"
    ELSE LET Is(p) == p.manufacturer_part_number = o
             originals == SelectSeq(full_bom_data.data, Is)
         IN  IF Len(originals) = 0
             THEN "no_original"
             ELSE LET alternatives == originals[1].octopart_data.similar_parts IN
                  IF \E k \in 1..Len(alternatives) : alternatives[k] = a
                  THEN "found"
                  ELSE "no_alternative"

\* What the judgment call can end in: a parsed verdict, an exception, or a
\* completion without a parsed verdict (a refusal).
JudgmentOutcomes == {"valid", "invalid", "raises", "no_parsed"}

\* An evaluator whose judgment failure escapes.
JudgmentPropagates(out) ==
    IF out \in {"raises", "no_parsed"}
    THEN [raised |-> TRUE, verdict |-> NoVerdict]
    ELSE [raised |-> FALSE, verdict |-> Verdict(out = "valid", "llm")]

\* The try block around the judgment call: a missing .parsed raises
\* ValueError inside it, and `except Exception` builds the internal-error
\* verdict.
Judgment(out) ==
    IF out \in {"raises", "no_parsed"}
    THEN [raised |-> FALSE, verdict |-> Verdict(FALSE, "internal_error")]
    ELSE [raised |-> FALSE, verdict |-> Verdict(out = "valid", "llm")]

\* An evaluator that takes the job's list out of the store.
StoreEntryPopped(j) ==
    [store EXCEPT ![j] = NoList]

\* The job store after evaluate_alternative read it: cache.get(job_id) and the
\* two next(...) searches read, _simplify_part_for_prompt builds new dicts,
\* and no statement of the function assigns to the cache or to a stored item.
StoreAfterEvaluation(j) ==
    store

\* evaluate_alternative is called: it returns a not-found verdict at once, or
\* suspends in the judgment call.
EvaluateCalled(j, o, a) ==
    /\ ev.pc # "awaiting"
    /\ evCalls < MaxEvalCalls
    /\ evCalls' = evCalls + 1
    /\ LET f == FindParts(j, o, a) IN
       ev' = IF f = "found"
             THEN Eval("awaiting", j, o, a, "pending", FALSE, NoVerdict)
             ELSE Eval("returned", j, o, a, "not_called", FALSE, Verdict(FALSE, f))
    /\ store' = StoreAfterEvaluation(j)
    /\ UNCHANGED <<impl, apiKey, nrows, capacity, disk, bpc, task, sema, calls, ret, orch,
                   served, other, look, val, key, second, plan, tool>>

\* The judgment call returns.
JudgmentReturns ==
    /\ ev.pc = "awaiting"
    /\ \E out \in JudgmentOutcomes :
        LET r == Judgment(out) IN
        ev' = [ev EXCEPT !.pc = "returned", !.judgment = out,
                         !.raised = r.raised, !.verdict = r.verdict]
    /\ UNCHANGED <<impl, apiKey, nrows, capacity, disk, bpc, task, sema, calls, store, ret, orch, evCalls,
                   served, other, look, val, key, second, plan, tool>>

\* ------------------------------------------- validation of one extraction

\* A table row as far as its quantity goes: whether its quantity cell holds a
\* value, and how many designators it lists.
BomRows ==
    [quantity_present : BOOLEAN, quantity : 1..MaxQuantity, designators : 0..MaxDesignators]

\* The "quantity" of the JSON the extraction call returned: an integer of
\* either sign, a value that is no integer, or no such key.
ExtractedQuantities ==
    {[shape |-> "int", value |-> q] : q \in (0 - MaxQuantity)..MaxQuantity}
    \cup {[shape |-> "text", value |-> 0], [shape |-> "missing", value |-> 0]}

\* ParsedBomItem.model_validate on that JSON: `quantity: int` is required and
\* carries no bound; the validated item keeps the value it was given.
ModelValidate(out) ==
    IF out.shape = "int"
    THEN [kind |-> "item", quantity |-> out.value]
    ELSE [kind |-> "error", quantity |-> 0]

\* The extraction call of a row has returned `out`: the row task validates it
\* and returns the item, or the error dict of its except branch.  Nothing
\* after the validation reads the row or writes the quantity.
ValidateOutput ==
    /\ val.pc = "extracted"
    /\ val' = [val EXCEPT !.pc = "validated", !.result = ModelValidate(val.out)]
    /\ UNCHANGED <<impl, apiKey, nrows, capacity, disk, bpc, task, sema, calls, store, ret, orch, ev, evCalls,
                   served, other, look, key, second, plan, tool>>

\* ------------------------------------------------- cache file name of an id

\* Characters of an identifier: a letter, a digit, and the characters
\* '/', '_', ' ', '+', '%'.
Alphabet == {"F", "2", "/", "_", " ", "+", "%"}

\* Non-empty identifiers, as sequences of characters.
Identifiers == UNION {[1..n -> Alphabet] : n \in 1..MaxIdLen}

\* A sanitizer that replaces the path separator by an underscore.
QuoteCharUnderscore(c) ==
    IF c = "/" THEN <<"_">>
    ELSE IF c = " " THEN <<"+">>
    ELSE IF c = "+" THEN <<"%", "2", "B">>
    ELSE IF c = "%" THEN <<"%", "2", "5">>
    ELSE <<c>>

\* urllib.parse.quote_plus on one character: letters, digits and '_' are
\* kept, a space becomes '+', every other character becomes '%' and the two
\* hex digits of its code.
QuoteChar(c) ==
    IF c = "/" THEN <<"%", "2", "F">>
    ELSE IF c = " " THEN <<"+">>
    ELSE IF c = "+" THEN <<"%", "2", "B">>
    ELSE IF c = "%" THEN <<"%", "2", "5">>
    ELSE <<c>>

RECURSIVE QuotePlus(_)
QuotePlus(mpn) ==
    IF Len(mpn) = 0 THEN <<>> ELSE QuoteChar(Head(mpn)) \o QuotePlus(Tail(mpn))

\* safe_mpn_filename = quote_plus(mpn) + ".json"
SafeMpnFilename(mpn) ==
    QuotePlus(mpn) \o <<".", "j", "s", "o", "n">>

\* The file name of the identifier is derived.
DeriveFilename ==
    /\ key.pc = "input"
    /\ key' = [key EXCEPT !.pc = "derived", !.file = SafeMpnFilename(key.mpn)]
    /\ UNCHANGED <<impl, apiKey, nrows, capacity, disk, bpc, task, sema, calls, store, ret, orch, ev, evCalls,
                   served, other, look, val, second, plan, tool>>

\* ------------------------------- a second run on the same job identifier

\* The lists a second run of get_bom_data_with_alternatives can gather from
\* the same uploaded file: per row a RowError or an item with catalog data.  Its row tasks are not followed one by one.
OtherResults ==
    {[i \in 1..nrows |->
        ModelDump(IF f[i] THEN ParsedItem(i, "A", OctopartPart(P1)) ELSE RowError(i))] :
        f \in [1..nrows -> BOOLEAN]}

\* The second run is called with the same job id, before, while or after
\* the first one runs.
OtherBatchStarts ==
    /\ other.pc = "idle"
    /\ other' = [other EXCEPT !.pc = "running"]
    /\ UNCHANGED <<impl, apiKey, nrows, capacity, disk, bpc, task, sema, calls, store, ret, orch, ev, evCalls,
                   served, look, val, key, second, plan, tool>>

\* Its gather returns: the list is dumped and assigned to cache[job_id].
OtherBatchCompletes ==
    /\ other.pc = "running"
    /\ \E results \in OtherResults :
        /\ other' = [pc |-> "returned", results |-> results]
        /\ store' = Put(JobId, 2, results)
    /\ UNCHANGED <<impl, apiKey, nrows, capacity, disk, bpc, task, sema, calls, ret, orch, ev, evCalls,
                   served, look, val, key, second, plan, tool>>

\* It raises before the assignment (no file, unreadable table, failed mapping).
OtherBatchRaises ==
    /\ other.pc = "running"
    /\ other' = [other EXCEPT !.pc = "raised"]
    /\ UNCHANGED <<impl, apiKey, nrows, capacity, disk, bpc, task, sema, calls, store, ret, orch, ev, evCalls,
                   served, look, val, key, second, plan, tool>>

\* ------------------------------------------- find_part_by_mpn called directly

\* A client that goes to the network before it looks at the cache.
FindPartStartNetworkFirst(m) ==
    IF m = NoMpn
    THEN [how |-> "no_mpn", part |-> Absent, consulted |-> FALSE]
    ELSE IF apiKey
    THEN [how |-> "fetch", part |-> Absent, consulted |-> FALSE]
    ELSE [how |-> "no_key", part |-> Absent, consulted |-> FALSE]

\* find_part_by_mpn from its first line to its first suspension: the
\* identifier test, the cache check, the API key test.  `consulted` tells
\* whether the cache file was looked for.
FindPartStart(m) ==
    IF m = NoMpn
    THEN [how |-> "no_mpn", part |-> Absent, consulted |-> FALSE]
    ELSE LET c == CacheCheck(m) IN
         IF c.status = "hit"
         THEN [how |-> "hit", part |-> c.part, consulted |-> CACHE_ENABLED]
         ELSE IF c.status = "raise"
         THEN [how |-> "raised", part |-> Absent, consulted |-> CACHE_ENABLED]
         ELSE IF KeyMissing
         THEN [how |-> "no_key", part |-> Absent, consulted |-> CACHE_ENABLED]
         ELSE [how |-> "fetch", part |-> Absent, consulted |-> CACHE_ENABLED]

\* A caller awaits find_part_by_mpn(m, sema) with a limiter nobody else holds,
\* one call after the other: the call returns at once, or enters
\* `async with sema` and issues the POST.
LookupCalled(m) ==
    /\ look.pc \in {"idle", "done"}
    /\ look.n < MaxLookups
    /\ LET s == FindPartStart(m) IN
       /\ look' = [pc |-> IF s.how = "fetch" THEN "inflight" ELSE "done",
                   mpn |-> m, how |-> s.how, got |-> s.part,
                   consulted |-> s.consulted, n |-> look.n + 1]
       /\ calls' = IF s.how = "fetch" THEN [calls EXCEPT ![m] = @ + 1] ELSE calls
    /\ UNCHANGED <<impl, apiKey, nrows, capacity, disk, bpc, task, sema, store, ret, orch, ev, evCalls,
                   served, other, val, key, second, plan, tool>>

\* The POST of the direct call returns: response handling, cache write, return.
LookupReturns ==
    /\ look.pc = "inflight"
    /\ \E resp \in Responses :
        LET part == PartData(resp) IN
        /\ \E wr \in (IF part = Absent THEN {"ok"} ELSE WriteOutcomes) :
              /\ disk' = CacheWrite(look.mpn, part, wr)
              /\ look' = [look EXCEPT !.pc = "done",
                                      !.how = IF part = Absent THEN "no_part" ELSE "fetched",
                                      !.got = Returned(part, wr)]
    /\ UNCHANGED <<impl, apiKey, nrows, capacity, bpc, task, sema, calls, store, ret, orch, ev, evCalls,
                   served, other, val, key, second, plan, tool>>

\* ------------------------------------ a batch running beside the first

\* A row task of that batch: its position and the identifier whose external
\* call it waits for or has in flight.  The items it returns go to the caller
\* of parse_bom_items and are not followed.
SecondTask(pc, m) == [pc |-> pc, mpn |-> m]

SecondRowDone(i) ==
    [second EXCEPT !.task[i] = SecondTask("done", NoMpn)]

\* A process with one limiter for all its batches.
SlotFreeInEveryBatch ==
    second.sema > 0 /\ sema > 0

\* The limiter a lookup of that batch enters is the `sema` its own
\* parse_bom_items call built and passed down.
SecondSlotFree ==
    second.sema > 0

\* `async with sema` entered and the POST issued, in that batch.
SecondAcquire(i, m) ==
    /\ second' = [second EXCEPT !.sema = @ - 1, !.task[i] = SecondTask("inflight", m)]
    /\ calls' = [calls EXCEPT ![m] = @ + 1]

\* parse_bom_items is called while the first batch is at any point: a new
\* Semaphore is built and one task per row created and gathered.
SecondDispatch ==
    /\ second.pc = "idle"
    /\ nrows > 0
    /\ second' = [pc |-> "gathering", sema |-> capacity,
                  task |-> [i \in 1..nrows |-> SecondTask("extracting", NoMpn)]]
    /\ UNCHANGED <<impl, apiKey, nrows, capacity, disk, bpc, task, sema, calls, store, ret, orch,
                   ev, evCalls, served, other, look, val, key, plan, tool>>

\* The extraction call of its row i returns: validation, then
\* find_part_by_mpn up to its first suspension.
SecondExtractionReturns(i) ==
    /\ second.pc = "gathering"
    /\ second.task[i].pc = "extracting"
    /\ \E out \in ExtractOutcomes :
        IF ~out.ok \/ out.mpn = NoMpn
        THEN second' = SecondRowDone(i) /\ UNCHANGED calls
        ELSE LET c == CacheCheck(out.mpn) IN
             IF c.status \in {"hit", "raise"} \/ KeyMissing
             THEN second' = SecondRowDone(i) /\ UNCHANGED calls
             ELSE IF SecondSlotFree
             THEN SecondAcquire(i, out.mpn)
             ELSE /\ second' = [second EXCEPT !.task[i] = SecondTask("waiting", out.mpn)]
                  /\ UNCHANGED calls
    /\ UNCHANGED <<impl, apiKey, nrows, capacity, disk, bpc, task, sema, store, ret, orch,
                   ev, evCalls, served, other, look, val, key, plan, tool>>

\* One of its tasks blocked in sema.acquire() gets a slot.
SecondSemaAcquired(i) ==
    /\ second.pc = "gathering"
    /\ second.task[i].pc = "waiting"
    /\ SecondSlotFree
    /\ SecondAcquire(i, second.task[i].mpn)
    /\ UNCHANGED <<impl, apiKey, nrows, capacity, disk, bpc, task, sema, store, ret, orch,
                   ev, evCalls, served, other, look, val, key, plan, tool>>

\* The POST of its row i returns: response handling, cache write, release.
SecondResponseReturns(i) ==
    /\ second.pc = "gathering"
    /\ second.task[i].pc = "inflight"
    /\ \E resp \in Responses :
        LET part == PartData(resp) IN
        \E wr \in (IF part = Absent THEN {"ok"} ELSE WriteOutcomes) :
            disk' = CacheWrite(second.task[i].mpn, part, wr)
    /\ second' = [second EXCEPT !.sema = @ + 1, !.task[i] = SecondTask("done", NoMpn)]
    /\ UNCHANGED <<impl, apiKey, nrows, capacity, bpc, task, sema, calls, store, ret, orch,
                   ev, evCalls, served, other, look, val, key, plan, tool>>

\* Its gather returns and parse_bom_items hands the results to its caller.
SecondGatherCompletes ==
    /\ second.pc = "gathering"
    /\ \A i \in Rows : second.task[i].pc = "done"
    /\ second' = [second EXCEPT !.pc = "returned"]
    /\ UNCHANGED <<impl, apiKey, nrows, capacity, disk, bpc, task, sema, calls, store, ret, orch,
                   ev, evCalls, served, other, look, val, key, plan, tool>>

\* ------------------------------------------------ optimize_production_plan

\* How a caller passes `cache`: not at all, as None, as the global
\* production_plans_cache, or as a dict of its own without plans.
CacheArguments == {"omitted", "none", "global", "own_empty"}

\* The object of the parameter default `cache: Dict[str, Any] = {}`: one dict
\* made when the function is defined; no statement ever adds a key to it.
DefaultCache ==
    [isNone |-> FALSE, jobs |-> {}]

\* What `cache` is bound to inside the call: whether it is None, and the job
\* ids it holds.
CacheBound(c) ==
    IF c = "omitted" THEN DefaultCache
    ELSE IF c = "none" THEN [isNone |-> TRUE, jobs |-> {}]
    ELSE IF c = "global" THEN [isNone |-> FALSE, jobs |-> plan.production_plans_cache]
    ELSE [isNone |-> FALSE, jobs |-> {}]

\* cache_to_use = cache if cache is not None else production_plans_cache
\* (its job ids).
CacheToUse(c) ==
    LET cache == CacheBound(c) IN
    IF ~cache.isNone THEN cache.jobs ELSE plan.production_plans_cache

\* upload_production_plan: a parsed CSV is stored under a fresh job id; a
\* rejected or unreadable file stores nothing.
UploadProductionPlan(j) ==
    /\ j \notin plan.production_plans_cache
    /\ \E out \in {"stored", "rejected"} :
          plan' = IF out = "stored"
                  THEN [plan EXCEPT !.production_plans_cache = @ \cup {j}]
                  ELSE plan
    /\ UNCHANGED <<impl, apiKey, nrows, capacity, disk, bpc, task, sema, calls, store, ret, orch,
                   ev, evCalls, served, other, look, val, key, second, tool>>

\* The generator is created and asked for its first chunk: it runs to the
\* yield of line 36.
OptimizeCalled(j, c) ==
    /\ plan.pc = "idle"
    /\ plan' = [plan EXCEPT !.pc = "marker", !.job_id = j, !.cache = c,
                            !.chunks = <<"tool_start">>]
    /\ UNCHANGED <<impl, apiKey, nrows, capacity, disk, bpc, task, sema, calls, store, ret, orch,
                   ev, evCalls, served, other, look, val, key, second, tool>>

\* The consumer asks for the next chunk: the cache is chosen and the job id
\* looked up; ValueError for a job id that is not in it, else the prompt is
\* built and the first LLM call awaited.
JobLookup ==
    /\ plan.pc = "marker"
    /\ plan' = IF plan.job_id \notin CacheToUse(plan.cache)
               THEN [plan EXCEPT !.pc = "raised", !.raised = TRUE]
               ELSE [plan EXCEPT !.pc = "first_call"]
    /\ UNCHANGED <<impl, apiKey, nrows, capacity, disk, bpc, task, sema, calls, store, ret, orch,
                   ev, evCalls, served, other, look, val, key, second, tool>>

\* A generator that lets a failure of its try block reach the consumer.
FailureRaises(p) ==
    [p EXCEPT !.pc = "raised", !.raised = TRUE]

\* `except Exception` at line 189: the error text is yielded as a chunk.
FailureYielded(p) ==
    [p EXCEPT !.pc = "error_yielded", !.chunks = Append(@, "error")]

\* The first LLM call returns: it raised; the message has no tool calls and
\* its content is yielded; the tool calls were handled and the final call is
\* awaited; or handling one raised (json.loads, get_weekday_names).
FirstCallReturns ==
    /\ plan.pc = "first_call"
    /\ \E out \in {"raises", "no_tool_calls", "tools_handled", "tool_handling_raises"} :
          plan' = IF out \in {"raises", "tool_handling_raises"}
                  THEN FailureYielded(plan)
                  ELSE IF out = "no_tool_calls"
                  THEN [plan EXCEPT !.pc = "content_yielded", !.chunks = Append(@, "text")]
                  ELSE [plan EXCEPT !.pc = "final_call"]
    /\ UNCHANGED <<impl, apiKey, nrows, capacity, disk, bpc, task, sema, calls, store, ret, orch,
                   ev, evCalls, served, other, look, val, key, second, tool>>

\* The final LLM call returns its stream, or raises.
FinalCallReturns ==
    /\ plan.pc = "final_call"
    /\ \E out \in {"raises", "stream"} :
          plan' = IF out = "raises"
                  THEN FailureYielded(plan)
                  ELSE [plan EXCEPT !.pc = "streaming"]
    /\ UNCHANGED <<impl, apiKey, nrows, capacity, disk, bpc, task, sema, calls, store, ret, orch,
                   ev, evCalls, served, other, look, val, key, second, tool>>

\* The stream delivers: a chunk with content, yielded as it is; its end; or a
\* failure.
StreamNext ==
    /\ plan.pc = "streaming"
    /\ \E out \in {"chunk", "ends", "raises"} :
          /\ out = "chunk" => Len(plan.chunks) <= MaxChunks
          /\ plan' = IF out = "chunk" THEN [plan EXCEPT !.chunks = Append(@, "text")]
                      ELSE IF out = "ends" THEN [plan EXCEPT !.pc = "done"]
                      ELSE FailureYielded(plan)
    /\ UNCHANGED <<impl, apiKey, nrows, capacity, disk, bpc, task, sema, calls, store, ret, orch,
                   ev, evCalls, served, other, look, val, key, second, tool>>

\* The consumer asks for a chunk after the error text or the message content:
\* the generator returns.
GeneratorReturns ==
    /\ plan.pc \in {"error_yielded", "content_yielded"}
    /\ plan' = [plan EXCEPT !.pc = "done"]
    /\ UNCHANGED <<impl, apiKey, nrows, capacity, disk, bpc, task, sema, calls, store, ret, orch,
                   ev, evCalls, served, other, look, val, key, second, tool>>

\* ------------------------------------------------------- the specification

Init ==
    /\ impl \in Impls
    /\ apiKey \in BOOLEAN
    /\ nrows \in 0..MaxRows
    /\ disk \in [MPNs -> InitFiles]
    /\ bpc = "idle"
    /\ task = [i \in 1..nrows |-> Task("created", NoMpn, "not_called", Absent, NoResult)]
    /\ capacity = SemaCapacity
    /\ sema = capacity
    /\ calls = [m \in MPNs |-> 0]
    /\ store = [j \in JobIds |-> NoList]
    /\ ret = NoReturn
    /\ orch = Orch("idle", 0, FALSE, <<>>, <<>>)
    /\ ev = Eval("idle", JobId, "A", "X", "not_called", FALSE, NoVerdict)
    /\ evCalls = 0
    /\ served = FALSE
    /\ other = NoOther
    /\ look = NoLook
    /\ val = NoVal
    /\ key = NoKey
    /\ second = NoSecond
    /\ plan = NoPlan
    /\ tool = NoTool

\* One batch under its caller.
Next ==
    \/ BatchStart
    \/ MappingReturns
    \/ \E i \in Rows : ExtractionReturns(i)
    \/ \E i \in Rows : SemaAcquired(i)
    \/ \E i \in Rows : ResponseReturns(i)
    \/ GatherCompletes
    \/ SynthesisReturns

Spec == Init /\ [][Next]_vars

\* A running event loop: a callback that is ready is run, an awaited call
\* returns or raises (the POST carries timeout=20.0), and a task waiting for
\* the limiter is woken when a slot is released.
Fairness ==
    /\ WF_vars(GatherCompletes)
    /\ \A i \in 1..MaxRows :
          /\ WF_vars(i \in Rows /\ ExtractionReturns(i))
          /\ WF_vars(i \in Rows /\ SemaAcquired(i))
          /\ WF_vars(i \in Rows /\ ResponseReturns(i))

\* The batch of stream_text with direct evaluate_alternative calls interleaved
\* at any point: a table of at most MaxEvalRows rows, a limiter of
\* EvalSemaCapacity slots, the API key set, each cache file missing or P1.
InitEval ==
    /\ impl = "logic"
    /\ apiKey = TRUE
    /\ nrows \in 0..MaxEvalRows
    /\ capacity = EvalSemaCapacity
    /\ disk \in [MPNs -> {NoFile, JsonFile(P1)}]
    /\ bpc = "idle"
    /\ task = [i \in 1..nrows |-> Task("created", NoMpn, "not_called", Absent, NoResult)]
    /\ sema = capacity
    /\ calls = [m \in MPNs |-> 0]
    /\ store = [j \in JobIds |-> NoList]
    /\ ret = NoReturn
    /\ orch = Orch("idle", 0, FALSE, <<>>, <<>>)
    /\ ev = Eval("idle", JobId, "A", "X", "not_called", FALSE, NoVerdict)
    /\ evCalls = 0
    /\ served = FALSE
    /\ other = NoOther
    /\ look = NoLook
    /\ val = NoVal
    /\ key = NoKey
    /\ second = NoSecond
    /\ plan = NoPlan
    /\ tool = NoTool

NextEval ==
    \/ Next
    \/ \E j \in JobIds, o \in MPNs, a \in Alternatives : EvaluateCalled(j, o, a)
    \/ JudgmentReturns

SpecEval == InitEval /\ [][NextEval]_vars

\* The batch of get_bom_data_with_alternatives alone on a running event loop,
\* from the same initial states: at most MaxEvalRows rows for a limiter of
\* EvalSemaCapacity slots.
SpecLive == InitEval /\ [][Next]_vars /\ Fairness

\* Two calls of find_part_by_mpn in sequence: a two-row table whose second row
\* is extracted, and looked up, only once the first row's task has finished.
InitTwice ==
    Init /\ nrows = 2

NextTwice ==
    \/ BatchStart
    \/ MappingReturns
    \/ \E i \in Rows : (\A k \in 1..(i - 1) : task[k].pc = "done") /\ ExtractionReturns(i)
    \/ \E i \in Rows : ResponseReturns(i)
    \/ GatherCompletes
    \/ SynthesisReturns

SpecTwice == InitTwice /\ [][NextTwice]_vars


\* Direct calls of find_part_by_mpn, one after the other, with no batch
\* running.
InitLookup ==
    Init /\ impl = "logic" /\ nrows = 0

NextLookup ==
    \/ \E m \in MPNs \cup {NoMpn} : LookupCalled(m)
    \/ LookupReturns

SpecLookup == InitLookup /\ [][NextLookup]_vars

\* Two runs of get_bom_data_with_alternatives on one job id, overlapping or in
\* sequence, with a direct evaluate_alternative call for that job id and the
\* original "A" interleaved at any point.  The API key is not set: a row is
\* served from the cache or finishes without catalog data, and no external
\* call is made.
InitStore ==
    /\ Init
    /\ impl = "logic"
    /\ ~apiKey
    /\ nrows \in 1..MaxEvalRows
    /\ \A m \in MPNs : disk[m] \in {NoFile, JsonFile(P1)}

NextStore ==
    \/ BatchStart
    \/ MappingReturns
    \/ \E i \in Rows : ExtractionReturns(i)
    \/ GatherCompletes
    \/ SynthesisReturns
    \/ \E a \in Alternatives : EvaluateCalled(JobId, "A", a)
    \/ JudgmentReturns
    \/ OtherBatchStarts
    \/ OtherBatchCompletes
    \/ OtherBatchRaises

SpecStore == InitStore /\ [][NextStore]_vars

\* Two batches in one event loop, each with the limiter its own call built:
\* the batch of get_bom_data_with_alternatives and a parse_bom_items batch
\* over a table of the same size, MaxEvalRows rows for limiters of
\* EvalSemaCapacity slots, the API key set.  In the first batch every row is
\* extracted with the identifier "A" and the catalog answers with P1 or with
\* no part; the second batch's rows and answers are unrestricted.
InitBatches ==
    /\ InitEval
    /\ nrows = MaxEvalRows

NextBatches ==
    \/ BatchStart
    \/ MappingReturns
    \/ \E i \in Rows : ExtractionReturns(i) /\ task'[i].mpn = "A"
    \/ \E i \in Rows : SemaAcquired(i)
    \/ \E i \in Rows : ResponseReturns(i) /\ task'[i].got \in {Absent, P1}
    \/ GatherCompletes
    \/ SynthesisReturns
    \/ SecondDispatch
    \/ \E i \in Rows : SecondExtractionReturns(i)
    \/ \E i \in Rows : SecondSemaAcquired(i)
    \/ \E i \in Rows : SecondResponseReturns(i)
    \/ SecondGatherCompletes

SpecBatches == InitBatches /\ [][NextBatches]_vars

\* No batch, no evaluation and no direct lookup is running.
Quiet ==
    /\ impl = "logic"
    /\ apiKey = TRUE
    /\ nrows = 0
    /\ capacity = SemaCapacity
    /\ disk = [m \in MPNs |-> NoFile]
    /\ bpc = "idle"
    /\ task = <<>>
    /\ sema = capacity
    /\ calls = [m \in MPNs |-> 0]
    /\ store = [j \in JobIds |-> NoList]
    /\ ret = NoReturn
    /\ orch = Orch("idle", 0, FALSE, <<>>, <<>>)
    /\ ev = Eval("idle", JobId, "A", "X", "not_called", FALSE, NoVerdict)
    /\ evCalls = 0
    /\ served = FALSE
    /\ other = NoOther
    /\ look = NoLook
    /\ second = NoSecond
    /\ plan = NoPlan
    /\ tool = NoTool

\* Uploads of production plans and one optimize_production_plan generator.
InitPlan ==
    /\ Quiet
    /\ val = NoVal
    /\ key = NoKey

NextPlan ==
    \/ \E j \in JobIds : UploadProductionPlan(j)
    \/ \E j \in JobIds, c \in CacheArguments : OptimizeCalled(j, c)
    \/ JobLookup
    \/ FirstCallReturns
    \/ FinalCallReturns
    \/ StreamNext
    \/ GeneratorReturns

SpecPlan == InitPlan /\ [][NextPlan]_vars

\* One start_bom_processing batch under process_and_enrich_bom, which has been
\* called and has not run yet: a table of at most MaxEvalRows rows, a limiter
\* of EvalSemaCapacity slots, each cache file missing or P1.
InitTool ==
    /\ impl = "service"
    /\ apiKey \in BOOLEAN
    /\ nrows \in 0..MaxEvalRows
    /\ capacity = EvalSemaCapacity
    /\ disk \in [MPNs -> {NoFile, JsonFile(P1)}]
    /\ bpc = "idle"
    /\ task = [i \in 1..nrows |-> Task("created", NoMpn, "not_called", Absent, NoResult)]
    /\ sema = capacity
    /\ calls = [m \in MPNs |-> 0]
    /\ store = [j \in JobIds |-> NoList]
    /\ ret = NoReturn
    /\ orch = Orch("idle", 0, FALSE, <<>>, <<>>)
    /\ ev = Eval("idle", JobId, "A", "X", "not_called", FALSE, NoVerdict)
    /\ evCalls = 0
    /\ served = FALSE
    /\ other = NoOther
    /\ look = NoLook
    /\ val = NoVal
    /\ key = NoKey
    /\ second = NoSecond
    /\ plan = NoPlan
    /\ tool = [pc |-> "called", result |-> "none", started |-> FALSE]

NextTool ==
    \/ ToolNoFile
    \/ tool.pc = "called" /\ BatchStart
    \/ MappingReturns
    \/ \E i \in Rows : ExtractionReturns(i)
    \/ \E i \in Rows : SemaAcquired(i)
    \/ \E i \in Rows : ResponseReturns(i)
    \/ GatherCompletes

SpecTool == InitTool /\ [][NextTool]_vars

\* One row task at the moment its extraction call has returned, for every
\* row and every returned quantity.
InitValidate ==
    /\ Quiet
    /\ key = NoKey
    /\ \E row \in BomRows, out \in ExtractedQuantities :
          val = [pc |-> "extracted", row |-> row, out |-> out,
                 result |-> [kind |-> "none", quantity |-> 0]]

NextValidate ==
    ValidateOutput

SpecValidate == InitValidate /\ [][NextValidate]_vars

\* A lookup about to derive its cache file name, for every identifier.
InitKey ==
    /\ Quiet
    /\ val = NoVal
    /\ \E mpn \in Identifiers : key = [pc |-> "input", mpn |-> mpn, file |-> <<>>]

NextKey ==
    DeriveFilename

SpecKey == InitKey /\ [][NextKey]_vars

\* Identifiers an extraction can put in the part-number field of a row: a part
\* number, a manufacturer's name in three spellings, and a part number that
\* starts with a manufacturer's name.
SummaryIds == {"A", "Vishay", "vishay", "RUBYCON", "Vishay1"}

\* What a finished row task can hold for the summary: the error dict, or an
\* item with or without identifier, with or without catalog data.
SummaryShapes ==
    {[error |-> TRUE, mpn |-> NoMpn, data |-> NoData]}
    \cup {[error |-> FALSE, mpn |-> m, data |-> d] :
             m \in SummaryIds \cup {NoMpn}, d \in {NoData, OctopartPart(P1)}}

SummaryRowResult(i, sh) ==
    IF sh.error THEN RowError(i) ELSE ParsedItem(i, sh.mpn, sh.data)

\* The batch of get_bom_data_with_alternatives at the moment its last row task
\* has finished, for every list of row results.
InitSummary ==
    /\ impl = "logic"
    /\ apiKey = TRUE
    /\ nrows \in 1..MaxRows
    /\ capacity = SemaCapacity
    /\ disk = [m \in MPNs |-> NoFile]
    /\ bpc = "gathering"
    /\ \E sh \in [1..nrows -> SummaryShapes] :
          task = [i \in 1..nrows |->
                    Task("done", sh[i].mpn, "not_called", Absent, SummaryRowResult(i, sh[i]))]
    /\ sema = capacity
    /\ calls = [m \in MPNs |-> 0]
    /\ store = [j \in JobIds |-> NoList]
    /\ ret = NoReturn
    /\ orch = Orch("batch", 0, FALSE, <<>>, <<>>)
    /\ ev = Eval("idle", JobId, "A", "X", "not_called", FALSE, NoVerdict)
    /\ evCalls = 0
    /\ served = FALSE
    /\ other = NoOther
    /\ look = NoLook
    /\ val = NoVal
    /\ key = NoKey
    /\ second = NoSecond
    /\ plan = NoPlan
    /\ tool = NoTool

NextSummary ==
    \/ GatherCompletes
    \/ SynthesisReturns

SpecSummary == InitSummary /\ [][NextSummary]_vars

\* ------------------------------------------------------------------ claims

\* The result list of the finished batch: the list stored under the job id
\* (logic.py) or returned as parsed_items (service.py).
BatchResults ==
    IF impl = "logic" THEN store[JobId].data ELSE ret.list

\* Row i's extraction failed: its task ended in the except branch before
\* find_part_by_mpn was called.
ExtractionFailed(i) ==
    task[i].pc = "done" /\ task[i].how = "not_called" /\ task[i].result.kind = "error"

\* External catalog calls in flight.
InFlight ==
    Cardinality({i \in Rows : task[i].pc = "inflight"})

C2_OneFailureOneRowError ==
    (bpc = "returned" /\ Cardinality({i \in Rows : ExtractionFailed(i)}) = 1) =>
        \A i \in Rows : BatchResults[i].error <=> ExtractionFailed(i)

\* C3: at no time are more external catalog calls in flight than the limiter
\* has slots, also when more lookups than slots are pending.
C3_InFlightBounded ==
    InFlight <= capacity

\* Every slot is taken by an in-flight call and a further lookup, a cache
\* miss, waits for one.
C3_Witness ==
    /\ InFlight = capacity
    /\ sema = 0
    /\ \E i \in Rows : task[i].pc = "waiting"


\* C4 (as claimed): two calls in sequence with one identifier issue at most
\* one external call, and the second is a cache hit returning what the first
\* returned.
C4_TwoCallsOneFetch ==
    \A m \in MPNs :
        (/\ task[1].pc = "done" /\ task[1].mpn = m
         /\ task[2].pc = "done" /\ task[2].mpn = m) =>
            /\ calls[m] <= 1
            /\ task[2].how = "hit"
            /\ task[2].got = task[1].got

\* C4 (amended): when the first call returned an entry and that entry is in
\* the cache as the second call starts, the second call is a cache hit that
\* returns an equal entry and issues no external call; at most one external
\* call was issued for the identifier.
C4_CachedEntryServedAgain ==
    [][\A m \in MPNs :
        (/\ task[1].pc = "done" /\ task[1].mpn = m
         /\ task[1].got # Absent
         /\ disk[m] = JsonFile(task[1].got)
         /\ task[2].pc = "extracting"
         /\ task'[2].pc # "extracting" /\ task'[2].mpn = m) =>
            /\ task'[2].pc = "done"
            /\ task'[2].how = "hit"
            /\ task'[2].got = task[1].got
            /\ calls' = calls
            /\ calls[m] <= 1]_vars

\* The first call fetched P2 and cached it, the second call of the same
\* identifier was served from the cache with the same entry, and one external
\* call was made.
C4_Witness ==
    /\ nrows = 2
    /\ task[1].pc = "done" /\ task[1].how = "fetched" /\ task[1].got = P2
    /\ task[2].pc = "done" /\ task[2].how = "hit" /\ task[2].got = P2
    /\ task[1].mpn = task[2].mpn
    /\ calls[task[1].mpn] = 1

\* C5 (as claimed): no lookup ends with an exception reaching its caller.
C5_LookupNeverRaises ==
    \A i \in Rows : task[i].how # "raised"

\* C6 (as claimed): a row whose extraction passed validation and whose lookup
\* gave no usable catalog data (absent, failed, or a payload the model
\* rejects) ends as a ParsedItem without catalog data.
C6_CatalogFailureKeepsItem ==
    \A i \in Rows :
        (/\ task[i].pc = "done"
         /\ task[i].how # "not_called"
         /\ (task[i].got = Absent \/ ~task[i].got.wellFormed)) =>
            /\ task[i].result.kind = "item"
            /\ ~task[i].result.octopart_data.present

\* What the job store holds for a call's arguments, read off the stored list.
KnownJob(j) == store[j].present
NonEmptyJob(j) == store[j].present /\ Len(store[j].data) > 0
HasOriginal(j, o) ==
    /\ store[j].present
    /\ \E k \in 1..Len(store[j].data) : store[j].data[k].manufacturer_part_number = o
ListsCandidate(j, o, a) ==
    /\ store[j].present
    /\ \E k \in 1..Len(store[j].data) :
          /\ store[j].data[k].manufacturer_part_number = o
          /\ \E c \in 1..Len(store[j].data[k].octopart_data.similar_parts) :
                store[j].data[k].octopart_data.similar_parts[c] = a
ReturnedNotFound(e, reason) ==
    /\ e.pc = "returned"
    /\ ~e.raised
    /\ e.judgment = "not_called"
    /\ e.verdict = Verdict(FALSE, reason)

\* C7 (as claimed): a call of evaluate_alternative returns, without raising,
\* the job verdict for an unknown job, the original verdict for a known job
\* without the original, and the alternative verdict for a known original
\* that does not list the candidate.
C7_NotFoundVerdicts ==
    [][evCalls' # evCalls =>
        LET j == ev'.job_id
            o == ev'.original_mpn
            a == ev'.alternative_mpn
        IN  /\ ~KnownJob(j) => ReturnedNotFound(ev', "no_job")
            /\ (KnownJob(j) /\ ~HasOriginal(j, o)) => ReturnedNotFound(ev', "no_original")
            /\ (HasOriginal(j, o) /\ ~ListsCandidate(j, o, a)) =>
                   ReturnedNotFound(ev', "no_alternative")]_vars

\* C7 (amended): a call of evaluate_alternative returns, without raising, the
\* job verdict for a job that is unknown or whose stored list is empty, the
\* original verdict for a job with a non-empty list without the original, and
\* the alternative verdict for a stored original that does not list the
\* candidate; the three verdicts differ.
C7_NotFoundVerdictsNonEmpty ==
    [][evCalls' # evCalls =>
        LET j == ev'.job_id
            o == ev'.original_mpn
            a == ev'.alternative_mpn
        IN  /\ ~NonEmptyJob(j) => ReturnedNotFound(ev', "no_job")
            /\ (NonEmptyJob(j) /\ ~HasOriginal(j, o)) => ReturnedNotFound(ev', "no_original")
            /\ (HasOriginal(j, o) /\ ~ListsCandidate(j, o, a)) =>
                   ReturnedNotFound(ev', "no_alternative")]_vars

\* A call on a stored, non-empty job that does not hold the original returned
\* the original verdict.
C7_Witness ==
    /\ NonEmptyJob(ev.job_id)
    /\ ~HasOriginal(ev.job_id, ev.original_mpn)
    /\ ReturnedNotFound(ev, "no_original")

\* C8: a call whose judgment raised, or came back without a parsed verdict,
\* returns normally with the is_valid=false internal-error verdict.
C8_JudgmentFailureCaught ==
    (ev.pc = "returned" /\ ev.judgment \in {"raises", "no_parsed"}) =>
        /\ ~ev.raised
        /\ ev.verdict = Verdict(FALSE, "internal_error")

\* A call returned the internal-error verdict after a judgment without a
\* parsed verdict.
C8_Witness ==
    /\ ev.pc = "returned"
    /\ ev.judgment = "no_parsed"
    /\ ~ev.raised
    /\ ev.verdict = Verdict(FALSE, "internal_error")

\* The candidates of a summary, in order: every alternative of every part.
RECURSIVE CandidatesFrom(_, _)
CandidatesFrom(summary, k) ==
    IF k > Len(summary)
    THEN <<>>
    ELSE [c \in 1..Len(summary[k].alternatives) |->
             [original |-> summary[k].manufacturer_part_number,
              alternative |-> summary[k].alternatives[c]]]
         \o CandidatesFrom(summary, k + 1)

\* C9 (as claimed): once the batch is stored, the orchestrator's evaluation
\* fan-out returns a list with one verdict per candidate of the summary.
C9_OneVerdictPerCandidate ==
    (impl = "logic" /\ bpc = "returned") =>
        /\ orch.gathered
        /\ Len(orch.evaluation_results) = Len(CandidatesFrom(ret.list, 1))

\* C10 (as claimed): for an original item with several candidates, the
\* orchestrator starts an evaluation of every candidate and gathers them all.
C10_AllCandidatesEvaluated ==
    (impl = "logic" /\ bpc = "returned") =>
        \A k \in 1..Len(ret.list) :
            Len(ret.list[k].alternatives) >= 2 =>
                /\ orch.started >= Len(ret.list[k].alternatives)
                /\ orch.gathered

\* C11: a lookup served from the cache finishes in the step that reads the
\* cache, whatever the number of free slots, and leaves the number of held
\* slots and of external calls unchanged.
C11_CacheHitTakesNoSlot ==
    [][\A i \in Rows :
        (task[i].pc = "extracting" /\ task'[i].how = "hit") =>
            /\ task'[i].pc = "done"
            /\ task'[i].got = disk[task'[i].mpn].part
            /\ sema' = sema
            /\ calls' = calls]_vars

\* A lookup was served from the cache while external calls held every slot,
\* and they still hold them.
C11_Witness ==
    /\ served
    /\ sema = 0
    /\ InFlight = capacity
    /\ \E i \in Rows : task[i].pc = "done" /\ task[i].how = "hit"

\* C12: a call with an empty identifier returns absent without looking for a
\* cache file and without an external call; any other call looks for the
\* cache file first; a call that finds a readable entry returns it without an
\* external call; an external call is issued only by a call that found no
\* readable entry.
C12_StepOrder ==
    [][/\ calls' # calls => look'.n # look.n
       /\ look'.n # look.n =>
            LET m == look'.mpn IN
            /\ disk' = disk
            /\ m = NoMpn =>
                 /\ look'.pc = "done" /\ look'.got = Absent
                 /\ ~look'.consulted
                 /\ calls' = calls
            /\ m # NoMpn => look'.consulted
            /\ (m # NoMpn /\ disk[m].kind = "json") =>
                 /\ look'.pc = "done" /\ look'.got = disk[m].part
                 /\ calls' = calls
            /\ calls' # calls =>
                 /\ m # NoMpn
                 /\ disk[m].kind \in {"none", "garbled"}
                 /\ calls' = [calls EXCEPT ![m] = @ + 1]]_vars

\* After a call that missed, fetched P2 and cached it, a call with an empty
\* identifier returned absent without touching the cache.
C12_Witness ==
    /\ look.pc = "done" /\ look.mpn = NoMpn /\ look.how = "no_mpn"
    /\ look.got = Absent /\ ~look.consulted
    /\ \E m \in MPNs : calls[m] = 1 /\ disk[m] = JsonFile(P2)

\* The list the first run gathered, as it is dumped.
FirstRunList == [i \in 1..nrows |-> ModelDump(task[i].result)]

C14_StoreHoldsWholeList ==
    \A j \in JobIds :
        store[j].present =>
            /\ j = JobId
            /\ \/ /\ store[j].batch = 1
                  /\ bpc = "returned"
                  /\ store[j].data = FirstRunList
               \/ /\ store[j].batch = 2
                  /\ other.pc = "returned"
                  /\ store[j].data = other.results
            /\ Len(store[j].data) = nrows

\* While the first run has finished one row and not the other, an
\* evaluate_alternative call found its parts in the list the second run
\* stored.
C14_Witness ==
    /\ bpc = "gathering"
    /\ \E i \in Rows : task[i].pc = "done"
    /\ \E i \in Rows : task[i].pc # "done"
    /\ store[JobId].present /\ store[JobId].batch = 2
    /\ ev.pc = "awaiting"

\* C15 (as claimed): every RowError a row task produced is an entry of the
\* list get_bom_data_with_alternatives returns to its caller.
C15_RowErrorReturned ==
    (impl = "logic" /\ bpc = "returned") =>
        \A i \in Rows :
            task[i].result.kind = "error" =>
                \E k \in 1..Len(ret.list) :
                    ret.list[k].kind = "error" /\ ret.list[k].row = i

\* C16 (as claimed): a row without a quantity value and with k designators
\* yields a ParsedItem of quantity k, whatever quantity the extraction
\* returned.
C16_QuantityInferred ==
    (/\ val.pc = "validated"
     /\ ~val.row.quantity_present
     /\ val.result.kind = "item") =>
        val.result.quantity = val.row.designators

\* C17 (as claimed): a negative extracted quantity fails validation, so that
\* every ParsedItem has a quantity of at least 0.
C17_QuantityNonNegative ==
    val.pc = "validated" =>
        /\ (val.out.shape = "int" /\ val.out.value < 0) => val.result.kind = "error"
        /\ val.result.kind = "item" => val.result.quantity >= 0

\* C18: the cache file name derived for an identifier is the file name of no
\* other identifier, and holds no path separator.
C18_DistinctFilenames ==
    key.pc = "derived" =>
        /\ \A other_mpn \in Identifiers :
              other_mpn # key.mpn => SafeMpnFilename(other_mpn) # key.file
        /\ \A k \in 1..Len(key.file) : key.file[k] # "/"

\* The identifier F/2 (as 1N5822-E3/73) got the file name F%2F2.json, and
\* F_2 (as 1N5822-E3_73) has the file name F_2.json.
C18_Witness ==
    /\ key.pc = "derived"
    /\ key.mpn = <<"F", "/", "2">>
    /\ key.file = <<"F", "%", "2", "F", "2", ".", "j", "s", "o", "n">>
    /\ SafeMpnFilename(<<"F", "_", "2">>) = <<"F", "_", "2", ".", "j", "s", "o", "n">>

\* C19 (as claimed): a lookup that finds a cache file it cannot read or
\* decode does not raise and returns nothing from the file; with the API key
\* set it goes on to the limiter and the external call.
C19_CorruptEntryIsMiss ==
    [][\A i \in Rows :
        (/\ task[i].pc = "extracting" /\ task'[i].pc # "extracting"
         /\ task'[i].mpn # NoMpn
         /\ disk[task'[i].mpn].kind \in {"garbled", "undecodable"}) =>
            /\ task'[i].how # "raised"
            /\ task'[i].got = Absent
            /\ apiKey => task'[i].pc \in {"inflight", "waiting"}]_vars

\* C20: when the external call returned an entry and the cache file does not
\* hold it afterwards (the write failed), the lookup still returns the
\* fetched entry, the slot is released, and the row gets the result it gets
\* for that entry: an item with catalog data for a well-formed entry.
C20_WriteFailureStillReturns ==
    [][\A i \in Rows :
        (/\ task[i].pc = "inflight" /\ task'[i].pc = "done"
         /\ task'[i].how = "fetched"
         /\ disk'[task[i].mpn] # JsonFile(task'[i].got)) =>
            /\ task'[i].got \in Payloads
            /\ task'[i].result = Attach(i, task[i].mpn, task'[i].got)
            /\ task'[i].got.wellFormed =>
                 /\ task'[i].result.kind = "item"
                 /\ task'[i].result.octopart_data.present
            /\ sema' = sema + 1]_vars

\* A row's only external call for its identifier fetched P2, the cache write
\* failed and left no readable file, and the row is an item with catalog data.
C20_Witness ==
    \E i \in Rows :
        /\ task[i].pc = "done" /\ task[i].how = "fetched" /\ task[i].got = P2
        /\ calls[task[i].mpn] = 1
        /\ disk[task[i].mpn] = Garbled
        /\ task[i].result.kind = "item"
        /\ task[i].result.octopart_data.present

\* External catalog calls issued by the batch, over all identifiers.
RECURSIVE SumCalls(_)
SumCalls(S) ==
    IF S = {} THEN 0
    ELSE LET m == CHOOSE x \in S : TRUE IN calls[m] + SumCalls(S \ {m})

ExternalCalls == SumCalls(MPNs)

\* Entry i of the returned batch is a ParsedItem with catalog data.
HasCatalogData(i) ==
    ~BatchResults[i].error /\ BatchResults[i].octopart_data.present

\* The 3-row scenario: the batch returned; row 1's lookup missed the cache and
\* fetched an entry the catalog model accepts, row 2's lookup was a cache hit,
\* row 3's extraction returned an item without identifier.
Scenario3 ==
    /\ bpc = "returned"
    /\ nrows = 3
    /\ task[1].how = "fetched" /\ task[1].got.wellFormed
    /\ task[2].how = "hit"
    /\ task[3].how = "not_called" /\ task[3].result.kind = "item"

\* Items 1 to 3 of the scenario and its count of external calls.
Scenario3Items ==
    /\ HasCatalogData(1)
    /\ BatchResults[1].octopart_data.tag = task[1].got.tag
    /\ HasCatalogData(2)
    /\ BatchResults[2].octopart_data.tag = task[2].got.tag
    /\ ~BatchResults[3].error
    /\ BatchResults[3].manufacturer_part_number = NoMpn
    /\ ~BatchResults[3].octopart_data.present
    /\ ExternalCalls = 1

RowStepped(i) ==
    \/ task[i].pc = "extracting" /\ task'[i].pc \in {"waiting", "inflight", "done"}
    \/ task[i].pc = "waiting" /\ task'[i].pc = "inflight"
    \/ task[i].pc = "inflight" /\ task'[i].pc = "done"

BothFetched(i, k) ==
    /\ i # k
    /\ task[i].how = "fetched" /\ task[k].how = "fetched"
    /\ task[i].mpn = task[k].mpn
    /\ task[i].got.wellFormed /\ task[k].got.wellFormed

\* C24 (as claimed): when two rows of a batch fetched the same uncached
\* identifier, both rows have catalog data and, the batch returned, the
\* identifier's cache file holds the complete response one of them wrote,
\* never a truncated record; and the step in which a lookup's response
\* returns leaves the files of all other identifiers as they were.
C24_SameKeyPutsComplete ==
    [][/\ \A i \in Rows :
            (task[i].pc = "inflight" /\ task'[i].pc = "done") =>
                \A m \in MPNs \ {task[i].mpn} : disk'[m] = disk[m]
       /\ bpc' = "returned" =>
            \A i \in Rows, k \in Rows :
                BothFetched(i, k)' =>
                    /\ HasCatalogData(i)' /\ HasCatalogData(k)'
                    /\ \E j \in Rows :
                          /\ task'[j].how = "fetched" /\ task'[j].mpn = task'[i].mpn
                          /\ disk'[task'[i].mpn] = JsonFile(task'[j].got)]_vars

\* C25: the slots held are exactly those of the external calls in flight:
\* whatever way a call ended, its slot is back, and with no call in flight
\* all slots are free.
C25_SlotsReleased ==
    /\ sema + InFlight = capacity
    /\ InFlight = 0 => sema = capacity

\* A batch has returned with every slot free after one lookup ended without
\* a part (an error, an empty result) and another fetched a part whose cache
\* write failed.
C25_Witness ==
    /\ bpc = "returned"
    /\ sema = capacity
    /\ \E i \in Rows : task[i].how = "no_part"
    /\ \E k \in Rows :
          /\ task[k].how = "fetched"
          /\ calls[task[k].mpn] = 1
          /\ disk[task[k].mpn] = Garbled

\* C26: a row task that is still in its extraction call has made no lookup;
\* the step in which the extraction of a row returns a failure, or an item
\* without identifier, finishes the row without reading the cache and leaves
\* the cache files, the limiter and the count of external calls as they were;
\* an extraction can return an item without identifier, and the row is then
\* that item without catalog data; every lookup and every external call is
\* for a non-empty identifier.
C26_LookupAfterValidIdentifier ==
    /\ [][\A i \in Rows :
            /\ task[i].pc = "extracting" =>
                 task[i].how = "not_called" /\ task[i].got = Absent
            /\ (/\ task[i].pc = "extracting" /\ task'[i].pc # "extracting"
                /\ task'[i].mpn = NoMpn) =>
                 /\ task'[i].pc = "done"
                 /\ task'[i].how = "not_called" /\ task'[i].got = Absent
                 /\ task'[i].result \in {RowError(i), ParsedItem(i, NoMpn, NoData)}
                 /\ disk' = disk /\ sema' = sema /\ calls' = calls
            /\ task'[i].how # "not_called" => task'[i].mpn \in MPNs
            /\ task'[i].pc = "done" /\ task'[i].result.kind = "error"
                  /\ task'[i].how = "not_called" => task'[i].mpn = NoMpn]_vars
    /\ [](\A i \in 1..MaxRows :
            (i \in Rows /\ bpc = "gathering" /\ task[i].pc = "extracting") =>
                ENABLED (/\ ExtractionReturns(i)
                         /\ task'[i].result = ParsedItem(i, NoMpn, NoData)
                         /\ task'[i].how = "not_called"))

\* In a returned batch one row failed in its extraction and one row is an item
\* without identifier; neither made a lookup, while a third row fetched its
\* part with the batch's only external call.
C26_Witness ==
    /\ bpc = "returned"
    /\ \E i \in Rows : ExtractionFailed(i)
    /\ \E i \in Rows :
          /\ task[i].how = "not_called"
          /\ task[i].result = ParsedItem(i, NoMpn, NoData)
    /\ \E i \in Rows : task[i].how = "fetched"
    /\ ExternalCalls = 1

\* Extraction calls in flight.
Extracting ==
    Cardinality({i \in Rows : task[i].pc = "extracting"})

\* C27: the step that dispatches a batch puts the extraction call of every
\* one of its N rows in flight and takes no slot of the limiter; an extraction
\* call in flight can return whatever the number of free slots; and the
\* external catalog calls in flight never exceed the capacity.
C27_ExtractionNotGated ==
    /\ [][(bpc # "gathering" /\ bpc' = "gathering") =>
            /\ Extracting' = nrows
            /\ sema' = capacity]_vars
    /\ [](\A i \in 1..MaxRows :
            (i \in Rows /\ bpc = "gathering" /\ task[i].pc = "extracting") =>
                ENABLED ExtractionReturns(i))
    /\ [](InFlight <= capacity)

\* A batch of more rows than slots has all its extraction calls in flight.
C27_Witness ==
    /\ bpc = "gathering"
    /\ nrows > capacity
    /\ Extracting = nrows
    /\ InFlight = 0

\* The entry the cache holds for an identifier: what a read of its file
\* yields, nothing for a missing or unreadable file.
CacheEntry(d, m) ==
    IF d[m].kind = "json" THEN d[m].part ELSE Absent

\* C28 (as claimed): a step changes the cache's entries only by storing, for
\* one identifier, the non-empty part that identifier's external call just
\* returned; a lookup that returns absent and a lookup served from the cache
\* change no entry; and an identifier that has an entry keeps one.
C28_CacheChangesOnlyByPut ==
    [][/\ \A m \in MPNs :
            CacheEntry(disk', m) # CacheEntry(disk, m) =>
                \E i \in Rows :
                    /\ task[i].pc = "inflight" /\ task[i].mpn = m
                    /\ task'[i].how = "fetched"
                    /\ CacheEntry(disk', m) = task'[i].got
       /\ \A i \in Rows :
            (/\ task'[i] # task[i] /\ task'[i].pc = "done"
             /\ (task'[i].got = Absent \/ task'[i].how = "hit")) =>
                \A m \in MPNs : CacheEntry(disk', m) = CacheEntry(disk, m)
       /\ \A m \in MPNs :
            CacheEntry(disk, m) # Absent => CacheEntry(disk', m) # Absent]_vars

SecondInFlight ==
    Cardinality({i \in DOMAIN second.task : second.task[i].pc = "inflight"})

\* C30: each batch has the limiter its own call built: the slots a limiter
\* holds are those of its own batch's calls in flight, which never exceed the
\* capacity; a lookup waiting for its batch's limiter can proceed whenever
\* that limiter has a free slot, whatever the other batch holds; so two
\* batches together have up to twice the capacity in flight.
C30_LimiterPerBatch ==
    /\ [](/\ InFlight <= capacity
          /\ SecondInFlight <= capacity
          /\ InFlight + SecondInFlight <= 2 * capacity
          /\ bpc = "gathering" => sema + InFlight = capacity
          /\ second.pc = "gathering" => second.sema + SecondInFlight = capacity)
    /\ [](\A i \in 1..MaxEvalRows :
            /\ (i \in Rows /\ bpc = "gathering" /\ task[i].pc = "waiting" /\ sema > 0) =>
                 ENABLED SemaAcquired(i)
            /\ (/\ i \in Rows /\ second.pc = "gathering"
                /\ second.task[i].pc = "waiting" /\ second.sema > 0) =>
                 ENABLED SecondSemaAcquired(i))
    /\ [][/\ sema' # sema => second' = second
          /\ second'.sema # second.sema => (sema' = sema /\ task' = task)]_vars

\* Both batches hold every slot of their limiters, twice the capacity of
\* external calls are in flight, and a lookup waits in each batch.
C30_Witness ==
    /\ InFlight = capacity
    /\ SecondInFlight = capacity
    /\ sema = 0 /\ second.sema = 0
    /\ \E i \in Rows : task[i].pc = "waiting"
    /\ \E i \in Rows : second.task[i].pc = "waiting"

\* Some step of the gathering batch can be taken: an awaited call of a row can
\* return, a waiting row can get a slot, or gather can return.
BatchCanStep ==
    \/ \E i \in Rows : ENABLED ExtractionReturns(i)
    \/ \E i \in Rows : ENABLED SemaAcquired(i)
    \/ \E i \in Rows : ENABLED ResponseReturns(i)
    \/ ENABLED GatherCompletes

\* C31: on a running event loop where every awaited call returns or fails, a
\* row task waiting for a slot of the limiter gets one, a row task whose
\* extraction or external call is in flight finishes, a gathering batch can
\* always take a step, and it ends up returned with every slot free.
C31_BatchTerminates ==
    /\ \A i \in 1..MaxEvalRows :
          /\ (i \in Rows /\ task[i].pc = "waiting") ~> (i \in Rows /\ task[i].pc = "inflight")
          /\ (i \in Rows /\ task[i].pc \in {"extracting", "waiting", "inflight"})
                ~> (i \in Rows /\ task[i].pc = "done")
    /\ [](bpc = "gathering" => BatchCanStep)
    /\ (bpc = "gathering") ~> (bpc = "returned" /\ sema = capacity)

\* A batch of more rows than slots returned after one of its rows had waited
\* for a slot: two rows fetched, one external call each, through a limiter of
\* fewer slots than rows.
C31_Witness ==
    /\ bpc = "returned"
    /\ nrows > capacity
    /\ Cardinality({i \in Rows : task[i].how \in {"fetched", "no_part"}}) > capacity
    /\ sema = capacity

\* The rows of the stored list that the summary keeps: those with an
\* identifier that, lower-cased, is none of the six manufacturer names.
KeptRows ==
    {i \in 1..Len(store[JobId].data) :
        /\ store[JobId].data[i].manufacturer_part_number # NoMpn
        /\ Lower(store[JobId].data[i].manufacturer_part_number) \notin ManufacturerNames}

\* C32: when get_bom_data_with_alternatives returns, the list stored under the
\* job id has all N row results, unfiltered and in row order, and the returned
\* list has one entry for exactly the stored entries that have an identifier
\* which is not a manufacturer name in any letter case, in the stored order.
C32_SummaryIsFilteredSublist ==
    bpc = "returned" =>
        /\ store[JobId].present
        /\ Len(store[JobId].data) = nrows
        /\ \A i \in Rows : store[JobId].data[i] = ModelDump(task[i].result)
        /\ ret.kind = "summary"
        /\ Len(ret.list) = Cardinality(KeptRows)
        /\ \A k \in 1..Len(ret.list) :
              /\ ret.list[k].row \in KeptRows
              /\ ret.list[k].manufacturer_part_number =
                    store[JobId].data[ret.list[k].row].manufacturer_part_number
              /\ \A h \in 1..(k - 1) : ret.list[h].row < ret.list[k].row

\* A 3-row batch returned whose row 1 is named "Vishay", row 2 is the part
\* "Vishay1" and row 3 is named "RUBYCON": the stored list has the three
\* entries and the returned list has row 2 only.
C32_Witness ==
    /\ bpc = "returned"
    /\ nrows = 3
    /\ task[1].mpn = "Vishay" /\ task[2].mpn = "Vishay1" /\ task[3].mpn = "RUBYCON"
    /\ Len(store[JobId].data) = 3
    /\ Len(ret.list) = 1
    /\ ret.list[1].row = 2

\* The job id has a stored list and the list is empty.
EmptyJob(j) ==
    store[j].present /\ Len(store[j].data) = 0

\* C33: a call of evaluate_alternative for a job id whose stored list is empty
\* returns at once, without raising and without a judgment call, the verdict
\* that names the job as missing, the same verdict a call for a job id without
\* stored list returns, and not the verdict that names the original part.
C33_EmptyListIsUnknownJob ==
    [][evCalls' # evCalls =>
        LET j == ev'.job_id IN
        /\ EmptyJob(j) =>
              /\ ReturnedNotFound(ev', "no_job")
              /\ ev'.verdict # Verdict(FALSE, "no_original")
              /\ ev' = Eval("returned", j, ev'.original_mpn, ev'.alternative_mpn,
                            "not_called", FALSE, Verdict(FALSE, "no_job"))
        /\ ~KnownJob(j) => ReturnedNotFound(ev', "no_job")]_vars

\* The batch of a table without rows returned and stored the empty list under
\* the job id, and a call for that job id returned the job-missing verdict.
C33_Witness ==
    /\ bpc = "returned"
    /\ nrows = 0
    /\ EmptyJob(JobId)
    /\ ev.job_id = JobId
    /\ ReturnedNotFound(ev, "no_job")

\* C34: a step of evaluate_alternative, the call up to its return or its
\* judgment call and the return of the judgment call with any outcome, leaves
\* the job store and the lists in it as they were; a call that does not find
\* the job, the original or the candidate returns in that step with its
\* not-found verdict and no judgment call, and a judgment call is made only
\* for a candidate found in the store.
C34_EvaluationReadsOnly ==
    [][/\ ev' # ev => store' = store
       /\ evCalls' # evCalls =>
            LET j == ev'.job_id
                o == ev'.original_mpn
                a == ev'.alternative_mpn
            IN  /\ (~NonEmptyJob(j) \/ ~HasOriginal(j, o) \/ ~ListsCandidate(j, o, a)) =>
                      /\ ev'.pc = "returned"
                      /\ ev'.judgment = "not_called"
                      /\ ~ev'.raised
                      /\ ev'.verdict.reasoning \in {"no_job", "no_original", "no_alternative"}
                /\ ev'.pc = "awaiting" => ListsCandidate(j, o, a)
       /\ ev'.judgment \notin {"not_called", "pending"} => ev.pc = "awaiting" \/ ev' = ev]_vars

\* A call found its candidate in the stored list, its judgment raised, it
\* returned the internal-error verdict, and the job id still maps to the full
\* list the batch stored.
C34_Witness ==
    /\ ev.pc = "returned"
    /\ ev.judgment = "raises"
    /\ bpc = "returned"
    /\ nrows > 0
    /\ store[JobId] = StoredList(1, FirstRunList)
    /\ ListsCandidate(ev.job_id, ev.original_mpn, ev.alternative_mpn)

\* Row results of the batch that are RowErrors, and that are ParsedItems
\* with catalog data.
ErrorRows ==
    {i \in Rows : task[i].result.kind = "error"}

EnrichedRows ==
    {i \in Rows : task[i].result.kind = "item" /\ task[i].result.octopart_data.present}

\* C35: the result start_bom_processing returns has a non-null
\* processing_error exactly when some row result is a RowError and no row
\* result is a ParsedItem with catalog data, and its parsed_items are the N
\* row results in row order.
C35_ProcessingErrorRule ==
    (impl = "service" /\ bpc = "returned") =>
        /\ ret.kind = "result"
        /\ ret.processing_error <=> (ErrorRows # {} /\ EnrichedRows = {})
        /\ Len(ret.list) = nrows
        /\ \A i \in Rows : ret.list[i] = ModelDump(task[i].result) /\ ret.list[i].row = i

\* start_bom_processing returned a 3-row result without processing_error in
\* which row 1 is a RowError, row 2 an item without catalog data and row 3 an
\* item with catalog data.
C35_Witness ==
    /\ impl = "service"
    /\ bpc = "returned"
    /\ nrows = 3
    /\ ErrorRows = {1}
    /\ EnrichedRows = {3}
    /\ ~ret.processing_error
    /\ Len(ret.list) = 3

\* C36 (as claimed): a generator called without a cache argument, for a job
\* id that upload_production_plan stored, finds the plan at its lookup and
\* goes on to process it.
C36_DefaultFallsBackToStore ==
    [][(/\ plan.pc = "marker" /\ plan'.pc # "marker"
        /\ plan.cache = "omitted"
        /\ plan.job_id \in plan.production_plans_cache) =>
            /\ plan'.pc = "first_call"
            /\ ~plan'.raised]_vars

\* The chunks of the generator that are the error text.
ErrorChunks ==
    {k \in 1..Len(plan.chunks) : plan.chunks[k] = "error"}

\* C37: the first chunk of every run is the tool-start marker, yielded in a
\* step that does not look the job id up; the next step raises ValueError,
\* with the marker the only chunk, exactly when the job id is not in the cache
\* the call uses; a failure of an LLM call, of the tool handling or of the
\* stream raises nothing: it yields the error text as one chunk, the last one,
\* and the generator then returns.
C37_MarkerThenLookup ==
    /\ [](/\ plan.pc # "idle" =>
               /\ Len(plan.chunks) >= 1 /\ plan.chunks[1] = "tool_start"
               /\ \A k \in 2..Len(plan.chunks) : plan.chunks[k] # "tool_start"
          /\ plan.raised <=> plan.pc = "raised"
          /\ plan.raised => plan.chunks = <<"tool_start">>
          /\ Cardinality(ErrorChunks) <= 1
          /\ ErrorChunks # {} =>
               /\ ErrorChunks = {Len(plan.chunks)}
               /\ plan.pc \in {"error_yielded", "done"})
    /\ [][/\ (plan.pc = "idle" /\ plan'.pc # "idle") =>
               /\ plan'.pc = "marker"
               /\ plan'.chunks = <<"tool_start">>
               /\ ~plan'.raised
          /\ (plan.pc = "marker" /\ plan'.pc # "marker") =>
               /\ plan'.chunks = plan.chunks
               /\ plan'.raised <=> plan.job_id \notin CacheToUse(plan.cache)
               /\ ~plan'.raised => plan'.pc = "first_call"
          /\ plan.pc \in {"first_call", "final_call", "streaming"} =>
               /\ ~plan'.raised
               /\ plan'.pc = "error_yielded" => plan'.chunks = Append(plan.chunks, "error")
          /\ (plan.pc = "error_yielded" /\ plan'.pc # "error_yielded") =>
               /\ plan'.pc = "done"
               /\ plan'.chunks = plan.chunks]_vars
    /\ [](plan.pc \in {"first_call", "final_call", "streaming"} =>
            ENABLED (/\ FirstCallReturns \/ FinalCallReturns \/ StreamNext
                     /\ plan'.pc = "error_yielded"))

\* A run for a stored job id, with the store passed as cache, whose final
\* stream failed after a text chunk: the generator returned after the
\* chunks marker, text, error text.
C37_Witness ==
    /\ plan.pc = "done"
    /\ ~plan.raised
    /\ plan.cache = "global"
    /\ plan.job_id \in plan.production_plans_cache
    /\ plan.chunks = <<"tool_start", "text", "error">>

\* The chunks of stream_text that are error chunks.
OrchErrorChunks ==
    {k \in 1..Len(orch.chunks) : orch.chunks[k] = "error"}

\* C38: from the recognised tool call on, stream_text never raises: when the
\* batch raised, when the creation of the evaluation tasks raised, or when
\* the synthesis call or its stream failed, the stream has one error chunk,
\* its last, and has ended; and after such a failure the job id still maps to
\* the full list the batch stored, which no step removes or changes.
C38_OrchestrationErrorsBecomeChunk ==
    /\ [](impl = "logic" =>
            /\ orch.pc # "raised"
            /\ Cardinality(OrchErrorChunks) <= 1
            /\ OrchErrorChunks # {} =>
                 /\ OrchErrorChunks = {Len(orch.chunks)}
                 /\ orch.pc = "done"
            /\ bpc = "raised" => (orch.pc = "done" /\ orch.chunks = <<"error">>)
            /\ (bpc = "returned" /\ CreateEvaluationTasks(ret.list).raised) =>
                 (orch.pc = "done" /\ orch.chunks = <<"error">>)
            /\ bpc = "returned" => store[JobId] = StoredList(1, FirstRunList))
    /\ [][/\ store[JobId].present => store'[JobId] = store[JobId]
          /\ (impl = "logic" /\ orch.pc = "synthesis" /\ orch'.pc # "synthesis") =>
               /\ orch'.pc = "done"
               /\ orch'.chunks \in {<<"text">>, <<"error">>, <<"text", "error">>}
               /\ store' = store]_vars
    /\ [](orch.pc = "synthesis" =>
            ENABLED (SynthesisReturns /\ orch'.chunks = <<"text", "error">>))

\* The batch stored a list with catalog data, the creation of the evaluation
\* tasks raised, the stream ended with the error chunk, and the list is still
\* stored under the job id.
C38_Witness ==
    /\ impl = "logic"
    /\ bpc = "returned"
    /\ orch.pc = "done"
    /\ orch.chunks = <<"error">>
    /\ nrows = 3
    /\ Len(ret.list) >= 1
    /\ \E i \in Rows : HasCatalogData(i)
    /\ store[JobId] = StoredList(1, FirstRunList)

====
